---- MODULE Spec2Model ----
(***************************************************************************)
(* Model of xclib/data/data_loader.py: DataloaderBase, Dataloader and      *)
(* DataloaderShortlist.  The loader is a state machine: the constructor    *)
(* (construct) loads the label matrix, restricts it to a label range,      *)
(* removes invalid labels and computes the batch plan; __iter__ walks the  *)
(* batch plan; update_data_shortlist rebuilds the label matrix.            *)
(***************************************************************************)
EXTENDS Integers, Sequences, FiniteSets, TLC

\* ---- bounds -------------------------------------------------------------
MaxInst == 2        \* instances in the label files of Spec
MaxLabels == 2      \* labels in the label files of Spec and SpecRange
MaxBatch == 2       \* batch_size in Spec, SpecRange and SpecRO
MaxShortLabels == 2 \* labels in the label files of SpecShortlist
MaxCandLen == 2     \* length of one instance's candidate list
MaxUpdates == 2     \* calls of update_data_shortlist in one behaviour
MaxItems == 7       \* instances / labels in the label files of SpecPlan
MaxBatchPlan == 5   \* batch_size in SpecPlan
MaxItemsRO == 4     \* instances / labels in the label files of SpecRO

None == "None"
Consumers == {1, 2}
Classes == {"Dataloader", "DataloaderShortlist"}
Modes == {"train", "predict"}
Orders == {"labels", "instances"}

VARIABLES
    label_file,     \* content of the label file: [num_instances, num_labels, pos]
    cls,            \* which subclass of DataloaderBase is instantiated
    batch_size, mode, batch_order, start_index, end_index,
    features,       \* self.features
    labels,         \* self.labels: [num_labels, Y], Y maps <<row, col>> to the stored value (0: no entry)
    valid_labels,   \* self.valid_labels
    num_labels_,    \* self.num_labels_
    batches,        \* self.batches
    state,          \* "Unconstructed", "Constructed" or "Failed" (constructor raised)
    raised,         \* the exception the last call raised: [type, at]
    upd,            \* update_data_shortlist calls: how many, how many returned, and
                    \* whether the last shortlist_ind held the index num_labels
                    \* (sentinel) or an index outside [0, num_labels] (outside)
    it              \* the generator each consumer holds: its position in
                    \* self.batches, the chunks it took (seen), the batch it
                    \* yielded last, whether the consumer dropped a generator
                    \* for this one (restarted) and where that one was (dropped_at)

vars == <<label_file, cls, batch_size, mode, batch_order, start_index, end_index,
          features, labels, valid_labels, num_labels_, batches, state, raised, upd, it>>

\* ---- helpers ------------------------------------------------------------
Range(n) == 0..(n - 1)

Min(a, b) == IF a < b THEN a ELSE b

\* np.arange(n) as a 1-indexed sequence 0, 1, ..., n-1
arange(n) == [k \in 1..n |-> k - 1]

\* sorted(S) for a finite set of integers
RECURSIVE SortedSeq(_)
SortedSeq(S) ==
    IF S = {} THEN <<>>
    ELSE LET m == CHOOSE x \in S : \A y \in S : x <= y
         IN <<m>> \o SortedSeq(S \ {m})

RECURSIVE Flatten(_)
Flatten(ss) == IF ss = <<>> THEN <<>> ELSE Head(ss) \o Flatten(Tail(ss))

NoError == [type |-> None, at |-> None]

\* ---- numpy / scipy ------------------------------------------------------
\* np.array_split(ary, sections): sections chunks, the first (len % sections)
\* of them one element longer; sections <= 0 raises ValueError
array_split_small_first(ary, sections) ==
    IF sections <= 0
    THEN [ok |-> FALSE, value |-> <<>>]
    ELSE LET Ntotal == Len(ary)
             Neach == Ntotal \div sections
             extras == Ntotal % sections
             late(t) == IF t > sections - extras THEN t - (sections - extras) ELSE 0
             div_point(t) == t * Neach + late(t)
         IN [ok |-> TRUE,
             value |-> [t \in 1..sections |->
                          SubSeq(ary, div_point(t - 1) + 1, div_point(t))]]

array_split(ary, sections) ==
    IF sections <= 0
    THEN [ok |-> FALSE, value |-> <<>>]
    ELSE LET Ntotal == Len(ary)
             Neach == Ntotal \div sections
             extras == Ntotal % sections
             div_point(t) == t * Neach + Min(t, extras)
         IN [ok |-> TRUE,
             value |-> [t \in 1..sections |->
                          SubSeq(ary, div_point(t - 1) + 1, div_point(t))]]

\* the sum of the values of the triples stored at <<i, j>>
RECURSIVE SumAt(_, _, _)
SumAt(triples, i, j) ==
    IF triples = <<>> THEN 0
    ELSE (IF Head(triples)[1] = i /\ Head(triples)[2] = j THEN Head(triples)[3] ELSE 0)
         + SumAt(Tail(triples), i, j)

\* sparse.csc_matrix((data, (rows, cols)), shape): the coordinate check raises
\* ValueError on an index outside the shape; duplicate coordinates are summed
csc_matrix(triples, ni, nl) ==
    IF \E k \in 1..Len(triples) :
          \/ triples[k][1] < 0 \/ triples[k][1] >= ni
          \/ triples[k][2] < 0 \/ triples[k][2] >= nl
    THEN [ok |-> FALSE, value |-> <<>>]
    ELSE [ok |-> TRUE,
          value |-> [p \in Range(ni) \X Range(nl) |-> SumAt(triples, p[1], p[2])]]

\* ---- LabelsBase ---------------------------------------------------------
\* LabelsBase(data_dir, fname): the matrix of the file, 1 at every positive
load_labels(file) ==
    [num_labels |-> file.num_labels,
     num_instances |-> file.num_instances,
     Y |-> [p \in Range(file.num_instances) \X Range(file.num_labels) |->
              IF p \in file.pos THEN 1 ELSE 0]]

\* the matrix restricted to the columns keep[1], keep[2], ... (renumbered)
select_cols(lb, keep) ==
    [num_labels |-> Len(keep),
     num_instances |-> lb.num_instances,
     Y |-> [p \in Range(lb.num_instances) \X Range(Len(keep)) |->
              lb.Y[<<p[1], keep[p[2] + 1]>>]]]

\* labels[:, start:end] for start >= 0 and end >= 0
getitem_cols(lb, start, end) ==
    select_cols(lb, SortedSeq({j \in Range(lb.num_labels) : start <= j /\ j < end}))

\* the labels with at least one positive instance
valid_indices(lb) ==
    SortedSeq({j \in Range(lb.num_labels) :
                  \E i \in Range(lb.num_instances) : lb.Y[<<i, j>>] # 0})

\* labels.remove_invalid(): drops the labels without positives
remove_invalid(lb) == select_cols(lb, valid_indices(lb))

\* labels.index_select(idx): column idx; .indices are the rows holding an entry
col_indices(lb, idx) ==
    SortedSeq({i \in Range(lb.num_instances) : lb.Y[<<i, idx>>] # 0})

col_data(lb, idx) ==
    LET ind == col_indices(lb, idx)
    IN [k \in 1..Len(ind) |-> lb.Y[<<ind[k], idx>>]]

\* labels.index_select(batch_indices, axis=0): the rows of the chunk
row_select(lb, batch_indices) ==
    [p \in Range(Len(batch_indices)) \X Range(lb.num_labels) |->
        lb.Y[<<batch_indices[p[1] + 1], p[2]>>]]

\* labels.data.tolil().rows[idx]: the columns of row idx holding an entry
lil_rows(lb, idx) ==
    SortedSeq({j \in Range(lb.num_labels) : lb.Y[<<idx, j>>] # 0})

\* ---- DataloaderBase -----------------------------------------------------
gen_batches_no_offset(order, nl, ni, bs) ==
    IF order = "labels"
    THEN array_split(arange(nl), nl \div bs)
    ELSE IF order = "instances"
    THEN array_split(arange(ni), ni \div bs)
    ELSE [ok |-> FALSE, value |-> <<>>]

\* DataloaderBase._gen_batches
gen_batches(order, nl, ni, bs) ==
    IF order = "labels"
    THEN LET offset == IF nl % bs = 0 THEN 0 ELSE 1
             num_batches == nl \div bs + offset
         IN array_split(arange(nl), num_batches)
    ELSE IF order = "instances"
    THEN LET offset == IF ni % bs = 0 THEN 0 ELSE 1
             num_batches == ni \div bs + offset
         IN array_split(arange(ni), num_batches)
    ELSE [ok |-> FALSE, value |-> <<>>]

\* the value self.end_index holds after construct
resolved_end(file, m, start, end) ==
    IF m = "train" /\ (start # 0 \/ end # -1)
    THEN (IF end = -1 THEN file.num_labels ELSE end)
    ELSE end

\* the label matrix before remove_invalid
restricted_labels(file, m, start, end) ==
    IF m = "train" /\ (start # 0 \/ end # -1)
    THEN getitem_cols(load_labels(file), start, resolved_end(file, m, start, end))
    ELSE load_labels(file)

\* self.labels when construct reaches _gen_batches
constructed_labels(file, m, start, end) ==
    IF m = "train"
    THEN remove_invalid(restricted_labels(file, m, start, end))
    ELSE restricted_labels(file, m, start, end)

\* DataloaderBase.__init__ and construct
construct ==
    /\ state = "Unconstructed"
    /\ LET lb == constructed_labels(label_file, mode, start_index, end_index)
           gb == gen_batches(batch_order, lb.num_labels, label_file.num_instances, batch_size)
       IN /\ features' = [num_instances |-> label_file.num_instances, data |-> "features.data"]
          /\ labels' = lb
          /\ num_labels_' = label_file.num_labels
          /\ end_index' = resolved_end(label_file, mode, start_index, end_index)
          /\ valid_labels' = IF mode = "train"
                             THEN valid_indices(restricted_labels(label_file, mode, start_index, end_index))
                             ELSE <<>>
          /\ batches' = IF gb.ok THEN gb.value ELSE <<>>
          /\ state' = IF gb.ok THEN "Constructed" ELSE "Failed"
          /\ raised' = IF gb.ok THEN NoError
                       ELSE [type |-> "ValueError", at |-> "array_split"]
    /\ UNCHANGED <<label_file, cls, batch_size, mode, batch_order, start_index, upd, it>>

\* DataloaderBase._create_instance_batch
create_instance_batch(ft, lb, batch_indices) ==
    [data |-> ft.data, ind |-> batch_indices, Y |-> row_select(lb, batch_indices)]

create_label_batch_zeros(ft, lb, batch_indices) ==
    [k \in 1..Len(batch_indices) |->
        LET pos_indices == col_indices(lb, batch_indices[k])
        IN [ind |-> None, data |-> ft.data,
            Y |-> [r \in Range(ft.num_instances) |->
                     IF \E q \in 1..Len(pos_indices) : pos_indices[q] = r THEN 1 ELSE 0]]]

\* Dataloader._create_label_batch
create_label_batch(ft, lb, batch_indices) ==
    [k \in 1..Len(batch_indices) |->
        LET pos_indices == col_indices(lb, batch_indices[k])
        IN [ind |-> None, data |-> ft.data,
            Y |-> [r \in Range(ft.num_instances) |->
                     IF \E q \in 1..Len(pos_indices) : pos_indices[q] = r THEN 1 ELSE -1]]]

\* DataloaderShortlist._create_label_batch
create_label_batch_shortlist(ft, lb, batch_indices) ==
    [k \in 1..Len(batch_indices) |->
        [data |-> ft.data,
         ind |-> col_indices(lb, batch_indices[k]),
         Y |-> col_data(lb, batch_indices[k])]]

\* Dataloader._create_batch and DataloaderShortlist._create_batch
create_batch(c, order, ft, lb, batch_indices) ==
    IF order = "labels"
    THEN (IF c = "Dataloader"
          THEN create_label_batch(ft, lb, batch_indices)
          ELSE create_label_batch_shortlist(ft, lb, batch_indices))
    ELSE create_instance_batch(ft, lb, batch_indices)

\* ---- __iter__ -----------------------------------------------------------
NoGenerator ==
    [started |-> FALSE, pos |-> 0, seen |-> <<>>, last |-> <<>>, done |-> FALSE,
     restarted |-> FALSE, dropped_at |-> 0]

iter_start_resume(c) ==
    /\ state = "Constructed"
    /\ it' = [it EXCEPT ![c] = [NoGenerator EXCEPT !.started = TRUE,
                                                   !.pos = it[c].pos,
                                                   !.restarted = it[c].started,
                                                   !.dropped_at = it[c].pos]]
    /\ UNCHANGED <<label_file, cls, batch_size, mode, batch_order, start_index, end_index,
                   features, labels, valid_labels, num_labels_, batches, state, raised, upd>>

\* iter(loader): a fresh generator; the one the consumer held is dropped
iter_start(c) ==
    /\ state = "Constructed"
    /\ it' = [it EXCEPT ![c] = [NoGenerator EXCEPT !.started = TRUE,
                                                   !.restarted = it[c].started,
                                                   !.dropped_at = it[c].pos]]
    /\ UNCHANGED <<label_file, cls, batch_size, mode, batch_order, start_index, end_index,
                   features, labels, valid_labels, num_labels_, batches, state, raised, upd>>

\* the position the generator moves to after yielding the chunk at pos
next_pos(pos) == pos + 1

iter_next_shared(c) ==
    /\ state = "Constructed"
    /\ it[c].started
    /\ ~it[c].done
    /\ it' = [d \in DOMAIN it |->
                IF d # c
                THEN (IF it[c].pos < Len(batches)
                      THEN [it[d] EXCEPT !.pos = next_pos(it[d].pos)]
                      ELSE it[d])
                ELSE IF it[c].pos < Len(batches)
                THEN LET batch_indices == batches[it[c].pos + 1]
                     IN [it[c] EXCEPT
                           !.pos = next_pos(it[c].pos),
                           !.seen = Append(it[c].seen, batch_indices),
                           !.last = <<create_batch(cls, batch_order, features, labels, batch_indices)>>]
                ELSE [it[c] EXCEPT !.done = TRUE]]
    /\ UNCHANGED <<label_file, cls, batch_size, mode, batch_order, start_index, end_index,
                   features, labels, valid_labels, num_labels_, batches, state, raised, upd>>

\* next(generator): yields the batch of the next chunk, or stops
iter_next(c) ==
    /\ state = "Constructed"
    /\ it[c].started
    /\ ~it[c].done
    /\ it' = [it EXCEPT ![c] =
                IF it[c].pos < Len(batches)
                THEN LET batch_indices == batches[it[c].pos + 1]
                     IN [it[c] EXCEPT
                           !.pos = next_pos(it[c].pos),
                           !.seen = Append(it[c].seen, batch_indices),
                           !.last = <<create_batch(cls, batch_order, features, labels, batch_indices)>>]
                ELSE [it[c] EXCEPT !.done = TRUE]]
    /\ UNCHANGED <<label_file, cls, batch_size, mode, batch_order, start_index, end_index,
                   features, labels, valid_labels, num_labels_, batches, state, raised, upd>>

\* ---- DataloaderShortlist.update_data_shortlist --------------------------
\* pos_labels[idx]: the columns the updater takes as the positives of row idx
shortlist_pos(lb, idx) == lil_rows(lb, idx)

shortlist_neg_keep_pos(lb, indices, idx) ==
    LET keep(x) == x # lb.num_labels
    IN SelectSeq(indices, keep)

shortlist_neg_keep_sentinel(lb, indices, idx) ==
    LET _pos == shortlist_pos(lb, idx)
        s_pos == {_pos[k] : k \in 1..Len(_pos)}
        keep(x) == x \notin s_pos
    IN SelectSeq(indices, keep)

\* _neg: the candidates that are neither in _pos nor the index num_labels
shortlist_neg(lb, indices, idx) ==
    LET _pos == shortlist_pos(lb, idx)
        s_pos == {_pos[k] : k \in 1..Len(_pos)} \cup {lb.num_labels}
        keep(x) == x \notin s_pos
    IN SelectSeq(indices, keep)

\* the (row, col, data) triples one pass of the loop body appends
row_triples(lb, indices, idx) ==
    LET _pos == shortlist_pos(lb, idx)
        _neg == shortlist_neg(lb, indices, idx)
        num_pos == Len(_pos)
        num_neg == Len(_neg)
        cols == _pos \o _neg
    IN [k \in 1..(num_pos + num_neg) |->
          <<idx, cols[k], IF k <= num_pos THEN 1 ELSE -1>>]

\* rows, cols and data after the loop over range(n)
RECURSIVE shortlist_triples(_, _, _)
shortlist_triples(lb, shortlist_ind, n) ==
    IF n = 0 THEN <<>>
    ELSE shortlist_triples(lb, shortlist_ind, n - 1)
         \o row_triples(lb, shortlist_ind[n - 1], n - 1)

\* the candidate lists one instance can be given
RECURSIVE SeqsUpTo(_, _)
SeqsUpTo(S, n) ==
    IF n = 0 THEN {<<>>}
    ELSE LET shorter == SeqsUpTo(S, n - 1)
         IN shorter \cup {Append(s, x) : s \in shorter, x \in S}

Candidates(nl) == SeqsUpTo((-1)..(nl + 1), MaxCandLen)

\* some candidate list holds the index num_labels
HasSentinel(shortlist_ind, nl) ==
    \E i \in DOMAIN shortlist_ind : \E k \in 1..Len(shortlist_ind[i]) :
        shortlist_ind[i][k] = nl

\* some candidate list holds an index that is neither a label nor num_labels
HasOutside(shortlist_ind, nl) ==
    \E i \in DOMAIN shortlist_ind : \E k \in 1..Len(shortlist_ind[i]) :
        shortlist_ind[i][k] < 0 \/ shortlist_ind[i][k] > nl

update_data_shortlist ==
    /\ state = "Constructed"
    /\ cls = "DataloaderShortlist"
    /\ upd.calls < MaxUpdates
    /\ \E shortlist_ind \in [Range(features.num_instances) -> Candidates(labels.num_labels)] :
         LET triples == shortlist_triples(labels, shortlist_ind, features.num_instances)
             built == csc_matrix(triples, features.num_instances, labels.num_labels)
         IN /\ labels' = IF built.ok THEN [labels EXCEPT !.Y = built.value] ELSE labels
            /\ raised' = IF built.ok THEN NoError
                         ELSE [type |-> "ValueError", at |-> "csc_matrix"]
            /\ upd' = [calls |-> upd.calls + 1,
                       ok |-> IF built.ok THEN upd.ok + 1 ELSE upd.ok,
                       sentinel |-> HasSentinel(shortlist_ind, labels.num_labels),
                       outside |-> HasOutside(shortlist_ind, labels.num_labels)]
    /\ UNCHANGED <<label_file, cls, batch_size, mode, batch_order, start_index, end_index,
                   features, valid_labels, num_labels_, batches, state, it>>

\* ---- specifications -----------------------------------------------------
\* every label file with at most mi instances and ml labels
Files(mi, ml) ==
    UNION {{[num_instances |-> ni, num_labels |-> nl, pos |-> P] :
               P \in SUBSET (Range(ni) \X Range(nl))} :
           ni \in 1..mi, nl \in 1..ml}

\* label files with up to n instances and n labels, every label positive for
\* exactly one instance
WideFiles(n) ==
    {[num_instances |-> ni, num_labels |-> nl,
      pos |-> {<<j % ni, j>> : j \in Range(nl)}] :
     ni \in 1..n, nl \in 1..n}

\* the fields __init__ sets before it calls construct
Unconstructed(consumers) ==
    /\ state = "Unconstructed"
    /\ features = None
    /\ labels = None
    /\ valid_labels = None
    /\ num_labels_ = None
    /\ batches = None
    /\ raised = NoError
    /\ upd = [calls |-> 0, ok |-> 0, sentinel |-> FALSE, outside |-> FALSE]
    /\ it = [c \in consumers |-> NoGenerator]

\* Spec: both loaders over every small label file, traversed by one consumer
Init ==
    /\ Unconstructed({1})
    /\ label_file \in Files(MaxInst, MaxLabels)
    /\ cls \in Classes
    /\ batch_size \in 1..MaxBatch
    /\ mode \in Modes
    /\ batch_order \in Orders
    /\ start_index = 0
    /\ end_index = -1

Next ==
    \/ construct
    \/ \E c \in DOMAIN it : iter_start(c)
    \/ \E c \in DOMAIN it : iter_next(c)

Spec == Init /\ [][Next]_vars

\* SpecRange: construction with every label range, over the label files of a
\* single instance
InitRange ==
    /\ Unconstructed({1})
    /\ label_file \in Files(1, MaxLabels)
    /\ cls \in Classes
    /\ batch_size \in 1..MaxBatch
    /\ mode \in Modes
    /\ batch_order \in Orders
    /\ start_index \in 0..MaxLabels
    /\ end_index \in (-1)..MaxLabels

SpecRange == InitRange /\ [][Next]_vars

\* SpecPlan: larger label files and batch sizes, one consumer
InitPlan ==
    /\ Unconstructed({1})
    /\ label_file \in WideFiles(MaxItems)
    /\ cls \in Classes
    /\ batch_size \in 1..MaxBatchPlan
    /\ mode = "train"
    /\ batch_order \in Orders
    /\ start_index = 0
    /\ end_index = -1

SpecPlan == InitPlan /\ [][Next]_vars

\* SpecRO: two consumers whose traversals interleave
InitRO ==
    /\ Unconstructed(Consumers)
    /\ label_file \in WideFiles(MaxItemsRO)
    /\ cls \in Classes
    /\ batch_size \in 1..MaxBatch
    /\ mode = "train"
    /\ batch_order \in Orders
    /\ start_index = 0
    /\ end_index = -1

SpecRO == InitRO /\ [][Next]_vars

\* SpecShortlist: a DataloaderShortlist over the label files of a single
\* instance, and the calls of update_data_shortlist
InitShortlist ==
    /\ Unconstructed({1})
    /\ label_file \in Files(1, MaxShortLabels)
    /\ cls = "DataloaderShortlist"
    /\ batch_size = 1
    /\ mode \in Modes
    /\ batch_order = "instances"
    /\ start_index = 0
    /\ end_index = -1

NextShortlist ==
    \/ construct
    \/ update_data_shortlist

SpecShortlist == InitShortlist /\ [][NextShortlist]_vars

\* ---- properties ---------------------------------------------------------
\* the number of items _gen_batches partitions
ItemCount ==
    IF batch_order = "labels" THEN labels.num_labels ELSE features.num_instances

CeilDiv(n, b) == (n + b - 1) \div b

\* the label matrix and the feature handle construct leaves in the loader
LabelsAtConstruction == constructed_labels(label_file, mode, start_index, end_index)

FeaturesAtConstruction ==
    [num_instances |-> label_file.num_instances, data |-> "features.data"]

\* end_index with -1 resolved to the label count of the file
ResolvedEnd == IF end_index = -1 THEN label_file.num_labels ELSE end_index

\* C1: for N > 0 items and batch size B > 0 the batch plan has ceil(N/B)
\* chunks, none empty, whose sizes sum to N and differ by at most 1 with the
\* larger chunks first, and whose concatenation is 0, 1, ..., N-1.
C1_BalancedPartition ==
    (state = "Constructed" /\ ItemCount > 0 /\ batch_size > 0) =>
        /\ Len(batches) = CeilDiv(ItemCount, batch_size)
        /\ \A t \in 1..Len(batches) : Len(batches[t]) > 0
        /\ Len(Flatten(batches)) = ItemCount
        /\ \A t, u \in 1..Len(batches) :
              t < u => Len(batches[t]) - Len(batches[u]) \in {0, 1}
        /\ Flatten(batches) = arange(ItemCount)

\* a plan of at least three chunks of two different sizes
C1_Witness ==
    /\ state = "Constructed"
    /\ Len(batches) >= 3
    /\ Len(batches[1]) > Len(batches[Len(batches)])

\* C8 as stated: every chunk's size differs from the configured batch size
\* by at most one element.
C8_WithinOneOfTarget ==
    state = "Constructed" =>
        \A t \in 1..Len(batches) : Len(batches[t]) - batch_size \in {-1, 0, 1}

\* C8 amended: every chunk's size is at most the batch size and is
\* floor(N/k) or floor(N/k) + 1 for the k chunks of the plan; it is the batch
\* size itself when the batch size divides N.
C8_AtMostTarget ==
    state = "Constructed" =>
        LET k == Len(batches)
        IN \A t \in 1..k :
              /\ Len(batches[t]) <= batch_size
              /\ Len(batches[t]) \in {ItemCount \div k, ItemCount \div k + 1}
              /\ ItemCount % batch_size = 0 => Len(batches[t]) = batch_size

\* a plan of several chunks, one of them two or more short of the batch size
C8_Witness ==
    /\ state = "Constructed"
    /\ Len(batches) >= 2
    /\ \E t \in 1..Len(batches) : batch_size - Len(batches[t]) >= 2

\* C5: in label-major one-vs-all mode the batch of a chunk holds one record
\* per label of the chunk, in chunk order, with 'ind' None and a target vector
\* over the instances that is +1 exactly at the rows holding an entry in the
\* label's column and -1 elsewhere (as many +1 as the column has entries).
C5_OneVsAllTargets ==
    (state = "Constructed" /\ cls = "Dataloader" /\ batch_order = "labels") =>
        \A c \in DOMAIN it :
            it[c].pos > 0 =>
                LET chunk == it[c].seen[it[c].pos]
                    batch == it[c].last[1]
                IN /\ Len(batch) = Len(chunk)
                   /\ \A k \in 1..Len(chunk) :
                        /\ batch[k].ind = None
                        /\ DOMAIN batch[k].Y = Range(features.num_instances)
                        /\ \A r \in Range(features.num_instances) :
                              batch[k].Y[r] = IF labels.Y[<<r, chunk[k]>>] # 0 THEN 1 ELSE -1
                        /\ Cardinality({r \in Range(features.num_instances) : batch[k].Y[r] = 1})
                             = Cardinality({r \in Range(features.num_instances) :
                                               labels.Y[<<r, chunk[k]>>] # 0})

\* a yielded batch of two records, one of them with a +1 and a -1
C5_Witness ==
    /\ state = "Constructed" /\ cls = "Dataloader" /\ batch_order = "labels"
    /\ it[1].pos > 0
    /\ Len(it[1].last[1]) >= 2
    /\ \E k \in 1..Len(it[1].last[1]) :
          \E r1, r2 \in Range(features.num_instances) :
             it[1].last[1][k].Y[r1] = 1 /\ it[1].last[1][k].Y[r2] = -1

\* C6: whenever end_index <= start_index once -1 is resolved to the label
\* count, construction fails: the loader never reaches Constructed, in every
\* mode and batch order.
C6_EmptyRangeRejected ==
    ResolvedEnd <= start_index => state # "Constructed"

\* C7: every traversal, after any number of completed or abandoned ones,
\* yields one batch per chunk of the batch plan in plan order from the first
\* chunk, and the batch plan stays the one computed at construction.
C7_Restartable ==
    state = "Constructed" =>
        /\ batches = gen_batches(batch_order, LabelsAtConstruction.num_labels,
                                 label_file.num_instances, batch_size).value
        /\ \A c \in DOMAIN it :
              it[c].started =>
                 /\ it[c].pos <= Len(batches)
                 /\ it[c].seen = SubSeq(batches, 1, it[c].pos)
                 /\ Len(it[c].last) = IF it[c].pos > 0 THEN 1 ELSE 0
                 /\ it[c].done => it[c].seen = batches

\* a second traversal that ran to the end after the first was dropped part-way
C7_Witness ==
    /\ state = "Constructed"
    /\ Len(batches) >= 2
    /\ it[1].restarted
    /\ it[1].dropped_at = 1
    /\ it[1].done

\* C9: when two traversals interleave step by step, each takes the chunks of
\* the plan once and in order, each batch is the one a lone traversal yields
\* for that chunk, and no step changes the label matrix or the feature handle.
C9_InterleavedTraversals ==
    state = "Constructed" =>
        /\ labels = LabelsAtConstruction
        /\ features = FeaturesAtConstruction
        /\ \A c \in DOMAIN it :
              it[c].started =>
                 /\ it[c].seen = [k \in 1..it[c].pos |-> batches[k]]
                 /\ it[c].done => it[c].pos = Len(batches)
                 /\ it[c].pos > 0 =>
                       it[c].last = <<create_batch(cls, batch_order, FeaturesAtConstruction,
                                                   LabelsAtConstruction, batches[it[c].pos])>>

\* both traversals under way, at different chunks of the plan
C9_Witness ==
    /\ state = "Constructed"
    /\ DOMAIN it = Consumers
    /\ it[1].started /\ it[2].started
    /\ 0 < it[1].pos /\ it[1].pos < it[2].pos /\ it[2].pos < Len(batches)

\* C2: every positive of the label matrix at construction still holds +1
\* after any number of update_data_shortlist calls that returned.
C2_PositivesPreserved ==
    state = "Constructed" =>
        \A p \in DOMAIN LabelsAtConstruction.Y :
            LabelsAtConstruction.Y[p] # 0 => labels.Y[p] = 1

\* two updates returned, and the matrix holds a positive and a mined entry
C2_Witness ==
    /\ state = "Constructed"
    /\ upd.ok >= 2
    /\ \E p, q \in DOMAIN labels.Y :
          /\ LabelsAtConstruction.Y[p] # 0
          /\ LabelsAtConstruction.Y[q] = 0 /\ labels.Y[q] # 0

\* C3: update_data_shortlist emits no triple whose column is the index
\* num_labels, whatever the candidate lists; a call whose lists hold that
\* index and otherwise only labels returns without raising.
C3_SentinelExcluded ==
    state = "Constructed" =>
        /\ \A shortlist_ind \in [Range(features.num_instances) -> Candidates(labels.num_labels)] :
              LET triples == shortlist_triples(labels, shortlist_ind, features.num_instances)
              IN \A k \in 1..Len(triples) : triples[k][2] # labels.num_labels
        /\ (upd.calls > 0 /\ upd.sentinel /\ ~upd.outside) => raised = NoError

\* an update whose candidate lists held the index num_labels has returned
C3_Witness ==
    /\ state = "Constructed"
    /\ upd.ok >= 1
    /\ upd.sentinel /\ ~upd.outside
    /\ raised = NoError

\* C4: a call whose candidate lists hold an index outside [0, num_labels]
\* fails, with the error raised before the new matrix is constructed, and
\* leaves the label matrix as it was.
C4_ValidatedBeforeConstruction ==
    [][(upd'.calls = upd.calls + 1 /\ upd'.outside) =>
          /\ raised'.type # None
          /\ raised'.at # "csc_matrix"
          /\ labels' = labels]_vars

\* C10: after one or more updates that returned, every stored entry of the
\* label matrix is +1 at a positive of construction and -1 elsewhere.
C10_TargetsStayTrue ==
    (state = "Constructed" /\ upd.ok >= 1) =>
        \A p \in DOMAIN labels.Y :
            labels.Y[p] # 0 =>
                labels.Y[p] = IF LabelsAtConstruction.Y[p] # 0 THEN 1 ELSE -1

====
